---- MODULE Spec2Model ----
(***************************************************************************)
(* Model of periodic_capture.py: the OpenGoProClient transport (get), the  *)
(* keep-alive thread, the capture thread (take_photo_and_download) and the *)
(* runner (start).  Time is counted in ticks of half a second.             *)
(***************************************************************************)
EXTENDS Integers, Sequences, FiniteSets, TLC

VARIABLES
    running,         \* self.running
    mainPc,          \* position of start()
    model,           \* self.model
    delete_from_sd,  \* DELETE_FROM_SD
    pc,              \* position of each thread
    ret,             \* where the thread's current get() returns to
    url,             \* argument of the thread's current get()
    retries,         \* argument of the thread's current get()
    attempt,         \* local of get()
    sent,            \* requests the current get() has handed to requests.get
    tried,           \* outcomes of those requests, in order (transport harness)
    inflight,        \* the thread is inside requests.get
    resp,            \* value returned by the thread's last get()
    media_list,      \* local of take_photo_and_download: the retained snapshot
    new_media_list,  \* local of take_photo_and_download
    new_files,       \* local of take_photo_and_download
    latest_photo,    \* local of take_photo_and_download
    elapsed,         \* time.monotonic() - start_wait
    waitExit,        \* how the last wait loop was left
    device,          \* file names on the SD card
    created,         \* number of files the camera has ever stored
    pending,         \* shots the camera has still to store
    saved,           \* local file written by the current transfer, <<>> if none
    xferLog,         \* requests sent for the current download_and_delete
    downloaded,      \* history: the keys handed to download_and_delete so far
    skipped          \* history: the keys of a diff that were not its greatest key

vars == <<running, mainPc, model, delete_from_sd, pc, ret, url, retries, attempt,
          sent, tried, inflight, resp, media_list, new_media_list, new_files,
          latest_photo, elapsed, waitExit, device, created, pending,
          saved, xferLog, downloaded, skipped>>

getVars == <<ret, url, retries, attempt, sent, tried, inflight, resp>>
capVars == <<media_list, new_media_list, new_files, latest_photo, elapsed,
             waitExit, saved, xferLog>>
devVars == <<device, created, pending>>
cfgVars == <<model, delete_from_sd>>
histVars == <<downloaded, skipped>>

(***************************************************************************)
(* Bounds of the model                                                     *)
(***************************************************************************)
\* number of file names the camera can give out in a run
MaxFiles == 2
\* largest retry count tried by the transport specification
MaxRetries == 3
\* longest time one attempt of a request takes, in half seconds
MaxDur == 1

(***************************************************************************)
(* Program constants (times in half seconds)                               *)
(***************************************************************************)
\* get(..., retries=2, ...)
DefaultRetries == 2
\* max_wait_time = 3 (s)
max_wait_time == 6
\* wait_time = 0.5 (s)
wait_time == 1
\* self.photo_interval = 0
photo_interval == 0

Ka == "ka"
Cap == "cap"
Threads == {Ka, Cap}
Models == {"Hero10", "Hero12", "Hero13"}

\* outcome of one requests.get: HTTP 200, another status, RequestException
Outcomes == {"200", "non200", "exc"}
\* time one attempt of a polling request can take
Durations == 0..MaxDur

(***************************************************************************)
(* Strings are sequences of character codes, compared as Python compares   *)
(* str values.                                                             *)
(***************************************************************************)
Slash == 47
\* "100GOPRO"
Folder == <<49, 48, 48, 71, 79, 80, 82, 79>>

\* the names the camera gives its files, in the order it stores them; the
\* numbering wraps, so a later file can sort before an earlier one:
\* G2, G10, G1, G20, G3, G30
NameTable == <<<<71, 50>>, <<71, 49, 48>>, <<71, 49>>, <<71, 50, 48>>, <<71, 51>>,
               <<71, 51, 48>>>>
NameOf(i) == NameTable[i]

\* str.__lt__
RECURSIVE LexLess(_, _)
LexLess(a, b) ==
    IF a = <<>> THEN b # <<>>
    ELSE IF b = <<>> THEN FALSE
    ELSE IF a[1] # b[1] THEN a[1] < b[1]
    ELSE LexLess(Tail(a), Tail(b))

LexLeq(a, b) == a = b \/ LexLess(a, b)

\* f"{folder}/{item['n']}"
Key(folder, n) == folder \o <<Slash>> \o n

\* mutant: the key is used as the local file name
Basename_Identity(s) == s

\* os.path.basename
RECURSIVE Basename(_)
Basename(s) ==
    IF \E i \in 1..Len(s) : s[i] = Slash
    THEN Basename(Tail(s))
    ELSE s

Range(s) == {s[i] : i \in 1..Len(s)}

\* sorted(): ascending by LexLess
RECURSIVE Sorted(_)
Sorted(S) ==
    IF S = {} THEN <<>>
    ELSE LET m == CHOOSE x \in S : \A y \in S : LexLeq(x, y)
         IN <<m>> \o Sorted(S \ {m})

(***************************************************************************)
(* Values: responses, JSON bodies, optional lists                          *)
(***************************************************************************)
NoBody == [json |-> FALSE, hasMedia |-> FALSE, media |-> <<>>]
\* the None returned by get()
NoneResp == [isNone |-> TRUE, status |-> 0, body |-> NoBody]
Response(status, b) == [isNone |-> FALSE, status |-> status, body |-> b]

\* the None returned by get_media_list()
NoneList == [isNone |-> TRUE, items |-> <<>>]
SomeList(s) == [isNone |-> FALSE, items |-> s]
\* truth value of a list-or-None
Truthy(l) == ~l.isNone /\ Len(l.items) > 0

FileEntry(n) == [hasN |-> TRUE, n |-> n]
BadFileEntry == [hasN |-> FALSE, n |-> <<>>]
FolderEntry(d, fs) == [hasD |-> TRUE, d |-> d, hasFs |-> TRUE, fs |-> fs]
\* a folder entry without "d", and one without "fs"
FolderWithoutD(fs) == [hasD |-> FALSE, d |-> <<>>, hasFs |-> TRUE, fs |-> fs]
FolderWithoutFs(d) == [hasD |-> TRUE, d |-> d, hasFs |-> FALSE, fs |-> <<>>]
JsonBody(hasMedia, media) == [json |-> TRUE, hasMedia |-> hasMedia, media |-> media]

\* the "fs" array the camera sends for the files it holds
DeviceFs(dev) == LET s == Sorted(dev) IN [i \in 1..Len(s) |-> FileEntry(s[i])]

\* the bodies the camera can send with a 200 on /gopro/media/list: the listing
\* of its files, a body that is not JSON and, when it holds no file, a listing
\* without a folder entry
ListBodies(dev) ==
    {JsonBody(TRUE, <<FolderEntry(Folder, DeviceFs(dev))>>), NoBody}
    \cup (IF dev = {} THEN {JsonBody(TRUE, <<>>)} ELSE {})

EndpointUrl(ep) == [ep |-> ep, path |-> <<>>]
FileUrl(ep, key) == [ep |-> ep, path |-> key]
NoUrl == EndpointUrl("none")

\* response.json() succeeds
IsJson(r) == r.body.json

\* get_media_list, from the response of get() on
get_media_list(r) ==
    IF r.isNone \/ r.status # 200 THEN NoneList
    ELSE IF ~IsJson(r) THEN NoneList
    ELSE IF ~(r.body.hasMedia /\ Len(r.body.media) > 0) THEN NoneList
    ELSE LET e == r.body.media[1] IN
         IF ~e.hasD \/ ~e.hasFs THEN NoneList
         ELSE IF \E i \in 1..Len(e.fs) : ~e.fs[i].hasN THEN NoneList
         ELSE SomeList([i \in 1..Len(e.fs) |-> Key(e.d, e.fs[i].n)])

\* a 200 listing of a camera that holds no media
IsEmptyDeviceResponse(r) ==
    /\ ~r.isNone /\ r.status = 200 /\ r.body.json /\ r.body.hasMedia
    /\ \/ r.body.media = <<>>
       \/ /\ Len(r.body.media) = 1
          /\ r.body.media[1].hasD /\ r.body.media[1].hasFs
          /\ r.body.media[1].fs = <<>>

(***************************************************************************)
(* Initial state: the client object after __init__, start() not yet run    *)
(***************************************************************************)
Init ==
    /\ running = TRUE
    /\ mainPc = "setup"
    /\ model \in Models
    /\ delete_from_sd \in BOOLEAN
    /\ pc = [t \in Threads |-> "not_started"]
    /\ ret = [t \in Threads |-> "none"]
    /\ url = [t \in Threads |-> NoUrl]
    /\ retries = [t \in Threads |-> DefaultRetries]
    /\ attempt = [t \in Threads |-> 0]
    /\ sent = [t \in Threads |-> 0]
    /\ tried = [t \in Threads |-> <<>>]
    /\ inflight = [t \in Threads |-> FALSE]
    /\ resp = [t \in Threads |-> NoneResp]
    /\ media_list = NoneList
    /\ new_media_list = NoneList
    /\ new_files = {}
    /\ latest_photo = <<>>
    /\ elapsed = 0
    /\ waitExit = "none"
    /\ device \in {{}, {NameOf(1)}}
    /\ created = Cardinality(device)
    /\ pending = 0
    /\ saved = <<>>
    /\ xferLog = <<>>
    /\ downloaded = {}
    /\ skipped = {}

(***************************************************************************)
(* Transport: get(url, stream, retries=2, timeout=2)                       *)
(***************************************************************************)
\* the call: attempt = 0
Call(t, u, r, retpc) ==
    /\ pc' = [pc EXCEPT ![t] = "get_loop"]
    /\ ret' = [ret EXCEPT ![t] = retpc]
    /\ url' = [url EXCEPT ![t] = u]
    /\ retries' = [retries EXCEPT ![t] = r]
    /\ attempt' = [attempt EXCEPT ![t] = 0]
    /\ sent' = [sent EXCEPT ![t] = 0]
    /\ resp' = [resp EXCEPT ![t] = NoneResp]
    /\ UNCHANGED <<inflight, tried>>

\* the caller has used the response: the locals of get() are gone
Return(t, nextpc) ==
    /\ pc' = [pc EXCEPT ![t] = nextpc]
    /\ ret' = [ret EXCEPT ![t] = "none"]
    /\ url' = [url EXCEPT ![t] = NoUrl]
    /\ retries' = [retries EXCEPT ![t] = DefaultRetries]
    /\ attempt' = [attempt EXCEPT ![t] = 0]
    /\ sent' = [sent EXCEPT ![t] = 0]
    /\ resp' = [resp EXCEPT ![t] = NoneResp]
    /\ UNCHANGED <<inflight, tried>>

\* the thread moves on without a call to get()
Goto(t, nextpc) ==
    /\ pc' = [pc EXCEPT ![t] = nextpc]
    /\ UNCHANGED getVars

\* mutant: one attempt too many
MoreAttempts_OffByOne(a, r) == a <= r

\* while attempt < retries
MoreAttempts(a, r) == a < r

\* the status code of a response that is not an exception
StatusOf(o) == IF o = "200" THEN 200 ELSE 500

\* response.status_code == 200
IsSuccess(status) == status = 200

\* the requests of a transfer are logged
Logged(t, u) == t = Cap /\ u.ep \in {"download", "delete"}

\* the polling requests of the wait loop take time
Timed(t) == t = Cap /\ ret[t] \in {"poll_ret", "last_ret"}

\* lines 46-48: the loop test, then requests.get is entered; line 54: return None
GetLoop(t) ==
    /\ pc[t] = "get_loop"
    /\ IF MoreAttempts(attempt[t], retries[t])
       THEN /\ pc' = [pc EXCEPT ![t] = "get_wait"]
            /\ inflight' = [inflight EXCEPT ![t] = TRUE]
            /\ sent' = [sent EXCEPT ![t] = @ + 1]
            /\ xferLog' = IF Logged(t, url[t]) THEN Append(xferLog, url[t]) ELSE xferLog
            /\ UNCHANGED resp
       ELSE /\ pc' = [pc EXCEPT ![t] = ret[t]]
            /\ resp' = [resp EXCEPT ![t] = NoneResp]
            /\ UNCHANGED <<inflight, sent, xferLog>>
    /\ UNCHANGED <<running, mainPc, cfgVars, ret, url, retries, attempt, tried,
                   media_list, new_media_list, new_files, latest_photo, elapsed,
                   waitExit, devVars, saved>>
    /\ UNCHANGED histVars

\* what the camera holds after it has answered u with 200
DeviceAfter(u, dev) ==
    IF u.ep = "delete" THEN {n \in dev : Key(Folder, n) # u.path} ELSE dev

\* a shutter request answered with 200 leaves a shot to store
PendingAfter(u, p) ==
    IF u.ep = "shutter" /\ created < MaxFiles THEN 1 ELSE p

\* the bodies a 200 response to u can carry
Bodies(u) == IF u.ep = "list" THEN ListBodies(device) ELSE {NoBody}

\* lines 48-53: requests.get ends with outcome o after time d: a 200 response
\* is returned, anything else uses up the attempt
Attempted(t, o, d) ==
    /\ pc[t] = "get_wait"
    /\ Timed(t) \/ d = 0
    /\ inflight' = [inflight EXCEPT ![t] = FALSE]
    /\ elapsed' = IF Timed(t) THEN elapsed + d ELSE elapsed
    /\ IF o # "exc" /\ IsSuccess(StatusOf(o))
       THEN /\ \E b \in Bodies(url[t]) :
                 resp' = [resp EXCEPT ![t] = Response(StatusOf(o), b)]
            /\ pc' = [pc EXCEPT ![t] = ret[t]]
            /\ device' = DeviceAfter(url[t], device)
            /\ pending' = PendingAfter(url[t], pending)
            /\ UNCHANGED attempt
       ELSE /\ attempt' = [attempt EXCEPT ![t] = @ + 1]
            /\ pc' = [pc EXCEPT ![t] = "get_loop"]
            /\ UNCHANGED <<resp, device, pending>>
    /\ UNCHANGED <<running, mainPc, cfgVars, ret, url, retries, sent, media_list,
                   new_media_list, new_files, latest_photo, waitExit, created,
                   saved, xferLog>>
    /\ UNCHANGED histVars

GetEnd(t) ==
    \E o \in Outcomes, d \in Durations : Attempted(t, o, d) /\ UNCHANGED tried

(***************************************************************************)
(* The camera stores a shot under its next file name                       *)
(***************************************************************************)
DeviceStore ==
    /\ pending > 0
    /\ created < MaxFiles
    /\ device' = device \cup {NameOf(created + 1)}
    /\ created' = created + 1
    /\ pending' = pending - 1
    /\ UNCHANGED <<running, mainPc, cfgVars, pc, getVars, capVars>>
    /\ UNCHANGED histVars

(***************************************************************************)
(* Keep-alive thread: send_keep_alive                                      *)
(***************************************************************************)
\* mutant: the keep-alive loop ends at its first test
KaContinue_Never(r) == FALSE

\* while self.running
KaContinue(r) == r

\* lines 70-72
KaHead ==
    /\ pc[Ka] = "ka_head"
    /\ IF KaContinue(running)
       THEN Call(Ka, EndpointUrl("keep_alive"), DefaultRetries, "ka_ret")
       ELSE Goto(Ka, "stopped")
    /\ UNCHANGED <<running, mainPc, cfgVars, capVars, devVars>>
    /\ UNCHANGED histVars

\* lines 73-78: a None response raises AttributeError, caught at line 77
KaRet ==
    /\ pc[Ka] = "ka_ret"
    /\ Return(Ka, "ka_sleep")
    /\ UNCHANGED <<running, mainPc, cfgVars, capVars, devVars>>
    /\ UNCHANGED histVars

\* line 79: time.sleep(self.keep_alive_interval)
KaSleep ==
    /\ pc[Ka] = "ka_sleep"
    /\ Goto(Ka, "ka_head")
    /\ UNCHANGED <<running, mainPc, cfgVars, capVars, devVars>>
    /\ UNCHANGED histVars

(***************************************************************************)
(* Capture thread: take_photo_and_download                                 *)
(***************************************************************************)
\* the locals of one cycle, once nothing reads them any more
CycleLocalsDead ==
    /\ new_media_list' = NoneList
    /\ new_files' = {}
    /\ latest_photo' = <<>>
    /\ elapsed' = 0
    /\ waitExit' = "none"
    /\ saved' = <<>>
    /\ xferLog' = <<>>

\* line 85: media_list = self.get_media_list()
InitList ==
    /\ pc[Cap] = "init_list"
    /\ Call(Cap, EndpointUrl("list"), DefaultRetries, "init_ret")
    /\ UNCHANGED <<running, mainPc, cfgVars, capVars, devVars>>
    /\ UNCHANGED histVars

\* lines 163-172, 85
InitRet ==
    /\ pc[Cap] = "init_ret"
    /\ media_list' = get_media_list(resp[Cap])
    /\ Return(Cap, "loop_head")
    /\ UNCHANGED <<running, mainPc, cfgVars, new_media_list, new_files,
                   latest_photo, elapsed, waitExit, saved, xferLog, devVars>>
    /\ UNCHANGED histVars

\* mutant: the capture loop never reads the flag
CapContinue_Always(r) == TRUE

\* mutant: the capture loop ends after its first failed or successful pass
CapContinue_Never(r) == FALSE

\* while self.running
CapContinue(r) == r

\* mutant: the interval has to be exceeded
IntervalElapsed_Strict(since) == since > photo_interval

\* now - last_photo_time >= self.photo_interval, on the time since the last trigger
IntervalElapsed(since) == since >= photo_interval

\* lines 87-96: the loop test, the interval test, the shutter request
LoopHead ==
    /\ pc[Cap] = "loop_head"
    /\ IF ~CapContinue(running) THEN Goto(Cap, "stopped")
       ELSE IF IntervalElapsed(0)
       THEN Call(Cap, EndpointUrl("shutter"), DefaultRetries, "shutter_ret")
       ELSE Goto(Cap, "sleep_tail")
    /\ UNCHANGED <<running, mainPc, cfgVars, capVars, devVars>>
    /\ UNCHANGED histVars

\* lines 97-107: the result is only printed; start_wait = time.monotonic()
ShutterRet ==
    /\ pc[Cap] = "shutter_ret"
    /\ elapsed' = 0
    /\ new_media_list' = NoneList
    /\ Return(Cap, "wait_head")
    /\ UNCHANGED <<running, mainPc, cfgVars, media_list, new_files, latest_photo,
                   waitExit, saved, xferLog, devVars>>
    /\ UNCHANGED histVars

\* mutant: the budget test lets one more iteration through
WaitBudgetOpen_Inclusive(e) == e <= max_wait_time

\* while time.monotonic() - start_wait < max_wait_time
WaitBudgetOpen(e) == e < max_wait_time

\* self.model == "Hero12" or self.model == "Hero13"
FastPath(m) == m = "Hero12" \/ m = "Hero13"

\* lines 109-115: the budget test, then the poll of this iteration
WaitHead ==
    /\ pc[Cap] = "wait_head"
    /\ IF WaitBudgetOpen(elapsed)
       THEN /\ IF FastPath(model)
               THEN Call(Cap, EndpointUrl("last_captured"), DefaultRetries, "last_ret")
               ELSE Call(Cap, EndpointUrl("list"), DefaultRetries, "poll_ret")
            /\ UNCHANGED waitExit
       ELSE /\ Goto(Cap, "after_wait")
            /\ waitExit' = "timeout"
    /\ UNCHANGED <<running, mainPc, cfgVars, media_list, new_media_list, new_files,
                   latest_photo, elapsed, saved, xferLog, devVars>>
    /\ UNCHANGED histVars

\* len(new_media_list) > len(media_list), both lists
Grown(new, old) == Len(new.items) > Len(old.items)

\* lines 115-117: new_media_list = self.get_media_list(); with media_list None,
\* len(media_list) raises TypeError, caught at line 141
PollRet ==
    /\ pc[Cap] = "poll_ret"
    /\ LET l == get_media_list(resp[Cap]) IN
        IF ~Truthy(l)
        THEN /\ Return(Cap, "wait_sleep")
             /\ new_media_list' = l
             /\ UNCHANGED <<new_files, latest_photo, elapsed, waitExit, saved, xferLog>>
        ELSE IF media_list.isNone
        THEN /\ Return(Cap, "sleep_tail")
             /\ CycleLocalsDead
        ELSE IF Grown(l, media_list)
        THEN /\ Return(Cap, "after_wait")
             /\ new_media_list' = l
             /\ waitExit' = "break"
             /\ UNCHANGED <<new_files, latest_photo, elapsed, saved, xferLog>>
        ELSE /\ Return(Cap, "wait_sleep")
             /\ new_media_list' = l
             /\ UNCHANGED <<new_files, latest_photo, elapsed, waitExit, saved, xferLog>>
    /\ UNCHANGED <<running, mainPc, cfgVars, media_list, devVars>>
    /\ UNCHANGED histVars

\* lines 146-157, 112: get_last_media returns [] whatever the response; the
\* result is bound to new_media, which nothing reads
LastRet ==
    /\ pc[Cap] = "last_ret"
    /\ Return(Cap, "wait_sleep")
    /\ UNCHANGED <<running, mainPc, cfgVars, capVars, devVars>>
    /\ UNCHANGED histVars

\* line 120: time.sleep(wait_time)
WaitSleep ==
    /\ pc[Cap] = "wait_sleep"
    /\ elapsed' = elapsed + wait_time
    /\ Goto(Cap, "wait_head")
    /\ UNCHANGED <<running, mainPc, cfgVars, media_list, new_media_list, new_files,
                   latest_photo, waitExit, saved, xferLog, devVars>>
    /\ UNCHANGED histVars

\* mutant: the old snapshot is not subtracted
NewFiles_NoDiff(new, old) == Range(new.items)

\* list(set(new_media_list) - set(media_list))
NewFiles(new, old) == Range(new.items) \ Range(old.items)

\* mutant: the first element of the sorted list is taken
Latest_First(S) == LET s == Sorted(S) IN s[1]

\* sorted(new_files)[-1]
Latest(S) == LET s == Sorted(S) IN s[Len(s)]

\* if not new_media_list
SkipTransfer(l) == ~Truthy(l)

\* lines 122-134, 176, 184-193: skip, or diff, select and start the download
Selected ==
    /\ pc[Cap] = "after_wait"
    /\ IF SkipTransfer(new_media_list)
       THEN /\ Goto(Cap, "loop_head")
            /\ CycleLocalsDead
       ELSE IF media_list.isNone
       THEN /\ Goto(Cap, "sleep_tail")
            /\ CycleLocalsDead
       ELSE LET nf == NewFiles(new_media_list, media_list) IN
            IF nf # {}
            THEN /\ new_files' = nf
                 /\ latest_photo' = Latest(nf)
                 /\ Call(Cap, FileUrl("download", Latest(nf)), DefaultRetries,
                         "download_ret")
                 /\ elapsed' = 0
                 /\ UNCHANGED <<new_media_list, waitExit, saved, xferLog>>
            ELSE /\ Goto(Cap, "sleep_tail")
                 /\ CycleLocalsDead
    /\ UNCHANGED <<running, mainPc, cfgVars, media_list, devVars>>

AfterWait == Selected /\ UNCHANGED histVars

\* mutant: the new index is merged into the old snapshot
Replaced_Merged(new, old) ==
    LET extra == Sorted(Range(new.items) \ Range(old.items))
    IN SomeList(old.items \o extra)

\* mutant: the old snapshot is kept
Replaced_Stale(new, old) == old

\* mutant: the snapshot is emptied
Replaced_Empty(new, old) == SomeList(<<>>)

\* media_list = new_media_list
Replaced(new, old) == new

\* mutant: the delete is asked for whatever the flag says
DeleteWanted_Always(flag) == TRUE

\* mutant: the delete is never asked for
DeleteWanted_Never(flag) == FALSE

\* if DELETE_FROM_SD
DeleteWanted(flag) == flag

\* a response is there and its status is 200
Ok(r) == ~r.isNone /\ r.status = 200

\* lines 194-203, 177-178, 207-208: the file is written when the response is
\* there; then the delete request, or line 137 when deletion is off
DownloadRet ==
    /\ pc[Cap] = "download_ret"
    /\ IF DeleteWanted(delete_from_sd)
       THEN /\ Call(Cap, FileUrl("delete", latest_photo), DefaultRetries, "delete_ret")
            /\ saved' = IF Ok(resp[Cap]) THEN Basename(latest_photo) ELSE <<>>
            /\ UNCHANGED <<media_list, new_media_list, new_files, latest_photo,
                           elapsed, waitExit, xferLog>>
       ELSE /\ media_list' = Replaced(new_media_list, media_list)
            /\ Return(Cap, "sleep_tail")
            /\ CycleLocalsDead
    /\ UNCHANGED <<running, mainPc, cfgVars, devVars>>
    /\ UNCHANGED histVars

\* lines 209-212, 137: the result is only printed; media_list = new_media_list
DeleteRet ==
    /\ pc[Cap] = "delete_ret"
    /\ media_list' = Replaced(new_media_list, media_list)
    /\ Return(Cap, "sleep_tail")
    /\ CycleLocalsDead
    /\ UNCHANGED <<running, mainPc, cfgVars, devVars>>
    /\ UNCHANGED histVars

\* line 144: time.sleep(0.02)
SleepTail ==
    /\ pc[Cap] = "sleep_tail"
    /\ Goto(Cap, "loop_head")
    /\ UNCHANGED <<running, mainPc, cfgVars, capVars, devVars>>
    /\ UNCHANGED histVars

(***************************************************************************)
(* Runner: start                                                           *)
(***************************************************************************)
\* the setup requests whose response is used without a test for None
\* (lines 241, 249, 281)
Unguarded == {3, 4, 7}

\* lines 220-291: the seven setup requests, each answered 200 or None, then
\* the two threads are started
Setup ==
    /\ mainPc = "setup"
    /\ \E ok \in [1..7 -> BOOLEAN] :
        IF \E i \in Unguarded : ~ok[i]
        THEN /\ mainPc' = "crashed"
             /\ UNCHANGED pc
        ELSE /\ mainPc' = "main_loop"
             /\ pc' = [pc EXCEPT ![Ka] = "ka_head", ![Cap] = "init_list"]
    /\ UNCHANGED <<running, cfgVars, getVars, capVars, devVars>>
    /\ UNCHANGED histVars

\* lines 294-299: KeyboardInterrupt
StopSignal ==
    /\ mainPc = "main_loop"
    /\ running' = FALSE
    /\ mainPc' = "join_ka"
    /\ UNCHANGED <<cfgVars, pc, getVars, capVars, devVars>>
    /\ UNCHANGED histVars

\* line 300
JoinKa ==
    /\ mainPc = "join_ka"
    /\ pc[Ka] = "stopped"
    /\ mainPc' = "join_cap"
    /\ UNCHANGED <<running, cfgVars, pc, getVars, capVars, devVars>>
    /\ UNCHANGED histVars

\* lines 301-303
JoinCap ==
    /\ mainPc = "join_cap"
    /\ pc[Cap] = "stopped"
    /\ mainPc' = "done"
    /\ UNCHANGED <<running, cfgVars, pc, getVars, capVars, devVars>>
    /\ UNCHANGED histVars

KaStep == KaHead \/ KaRet \/ KaSleep \/ GetLoop(Ka) \/ GetEnd(Ka)
CapStep ==
    \/ InitList \/ InitRet \/ LoopHead \/ ShutterRet \/ WaitHead \/ PollRet
    \/ LastRet \/ WaitSleep \/ AfterWait \/ DownloadRet \/ DeleteRet \/ SleepTail
    \/ GetLoop(Cap) \/ GetEnd(Cap)
MainStep == JoinKa \/ JoinCap

Next ==
    \/ Setup \/ StopSignal \/ JoinKa \/ JoinCap
    \/ KaHead \/ KaRet \/ KaSleep
    \/ InitList \/ InitRet \/ LoopHead \/ ShutterRet \/ WaitHead \/ PollRet
    \/ LastRet \/ WaitSleep \/ AfterWait \/ DownloadRet \/ DeleteRet \/ SleepTail
    \/ \E t \in Threads : GetLoop(t)
    \/ \E t \in Threads : GetEnd(t)
    \/ DeviceStore

Spec == Init /\ [][Next]_vars

(***************************************************************************)
(* Transport harness: get() alone, called by each thread with a retry      *)
(* count from 1..MaxRetries; the outcomes of its requests are recorded.    *)
(***************************************************************************)
InitGet ==
    /\ running = TRUE
    /\ mainPc = "main_loop"
    /\ model = "Hero10"
    /\ delete_from_sd = TRUE
    /\ pc = [t \in Threads |-> "get_loop"]
    /\ ret = [t \in Threads |-> "get_done"]
    /\ url = [t \in Threads |-> EndpointUrl("keep_alive")]
    /\ retries \in [Threads -> 1..MaxRetries]
    /\ attempt = [t \in Threads |-> 0]
    /\ sent = [t \in Threads |-> 0]
    /\ tried = [t \in Threads |-> <<>>]
    /\ inflight = [t \in Threads |-> FALSE]
    /\ resp = [t \in Threads |-> NoneResp]
    /\ media_list = NoneList
    /\ new_media_list = NoneList
    /\ new_files = {}
    /\ latest_photo = <<>>
    /\ elapsed = 0
    /\ waitExit = "none"
    /\ device = {}
    /\ created = 0
    /\ pending = 0
    /\ saved = <<>>
    /\ xferLog = <<>>
    /\ downloaded = {}
    /\ skipped = {}

GetEndTraced(t) ==
    \E o \in Outcomes, d \in Durations :
        Attempted(t, o, d) /\ tried' = [tried EXCEPT ![t] = Append(@, o)]

NextGet ==
    \/ \E t \in Threads : GetLoop(t)
    \/ \E t \in Threads : GetEndTraced(t)

SpecGet == InitGet /\ [][NextGet]_vars

(***************************************************************************)
(* The program with the history of its transfers recorded: the keys handed *)
(* to download_and_delete, and the keys of a diff that were passed over.   *)
(***************************************************************************)
AfterWaitTraced ==
    /\ Selected
    /\ LET nf == NewFiles(new_media_list, media_list) IN
        IF pc'[Cap] = "get_loop"
        THEN /\ downloaded' = downloaded \cup {Latest(nf)}
             /\ skipped' = skipped \cup (nf \ {Latest(nf)})
        ELSE UNCHANGED histVars

NextTraced ==
    \/ Setup \/ StopSignal \/ JoinKa \/ JoinCap
    \/ KaHead \/ KaRet \/ KaSleep
    \/ InitList \/ InitRet \/ LoopHead \/ ShutterRet \/ WaitHead \/ PollRet
    \/ LastRet \/ WaitSleep \/ AfterWaitTraced \/ DownloadRet \/ DeleteRet
    \/ SleepTail
    \/ \E t \in Threads : GetLoop(t)
    \/ \E t \in Threads : GetEnd(t)
    \/ DeviceStore

SpecTraced == Init /\ [][NextTraced]_vars

(***************************************************************************)
(* Parsing harness: the capture thread has the response of a poll in its   *)
(* hands, with a body drawn from the shapes a listing can have, and runs   *)
(* the rest of its cycle: get_media_list, the diff, the download under the *)
(* base name, the delete.                                                  *)
(***************************************************************************)
\* "101GOPRO"
OtherFolder == <<49, 48, 49, 71, 79, 80, 82, 79>>

\* the file entries a listing can carry: with a name, or without "n"
ParseEntries == {FileEntry(NameOf(i)) : i \in 1..MaxFiles} \cup {BadFileEntry}

\* the "fs" arrays of up to MaxFiles entries
ParseFs == UNION {[1..k -> ParseEntries] : k \in 0..MaxFiles}

\* the bodies of a 200 response: not JSON, without "media", without a folder
\* entry, with a folder entry, with a folder entry that lacks "d" or "fs"
ParseBodies ==
    {NoBody, JsonBody(FALSE, <<>>), JsonBody(TRUE, <<>>)}
    \cup {JsonBody(TRUE, <<FolderEntry(d, fs)>>) : d \in {Folder, OtherFolder}, fs \in ParseFs}
    \cup {JsonBody(TRUE, <<FolderWithoutD(fs)>>) : fs \in ParseFs}
    \cup {JsonBody(TRUE, <<FolderWithoutFs(d)>>) : d \in {Folder, OtherFolder}}

\* the snapshots the poll is compared with: the empty index, and the index
\* of the first file
ParseSnapshots == {SomeList(<<>>), SomeList(<<Key(Folder, NameOf(1))>>)}

InitParse ==
    /\ running = TRUE
    /\ mainPc = "main_loop"
    /\ model = "Hero10"
    /\ delete_from_sd \in BOOLEAN
    /\ pc = [t \in Threads |-> IF t = Cap THEN "poll_ret" ELSE "ka_sleep"]
    /\ ret = [t \in Threads |-> IF t = Cap THEN "poll_ret" ELSE "none"]
    /\ url = [t \in Threads |-> IF t = Cap THEN EndpointUrl("list") ELSE NoUrl]
    /\ retries = [t \in Threads |-> DefaultRetries]
    /\ attempt = [t \in Threads |-> 0]
    /\ sent = [t \in Threads |-> IF t = Cap THEN 1 ELSE 0]
    /\ tried = [t \in Threads |-> <<>>]
    /\ inflight = [t \in Threads |-> FALSE]
    /\ \E b \in ParseBodies :
          resp = [t \in Threads |-> IF t = Cap THEN Response(200, b) ELSE NoneResp]
    /\ media_list \in ParseSnapshots
    /\ new_media_list = NoneList
    /\ new_files = {}
    /\ latest_photo = <<>>
    /\ elapsed = 0
    /\ waitExit = "none"
    /\ device = {NameOf(i) : i \in 1..MaxFiles}
    /\ created = MaxFiles
    /\ pending = 0
    /\ saved = <<>>
    /\ xferLog = <<>>
    /\ downloaded = {}
    /\ skipped = {}

NextParse ==
    \/ PollRet \/ AfterWait \/ DownloadRet \/ DeleteRet
    \/ GetLoop(Cap) \/ GetEnd(Cap)

SpecParse == InitParse /\ [][NextParse]_vars

\* every started thread keeps running, every request and sleep returns, the
\* camera stores its shots, and the joins return
FairSpec ==
    /\ Init /\ [][Next]_vars
    /\ WF_vars(KaStep) /\ WF_vars(CapStep) /\ WF_vars(MainStep) /\ WF_vars(DeviceStore)

(***************************************************************************)
(* Properties                                                              *)
(***************************************************************************)
\* the capture thread is inside get() called from the wait loop, or between
\* two polls
InWait ==
    \/ pc[Cap] \in {"wait_head", "poll_ret", "last_ret", "wait_sleep"}
    \/ pc[Cap] \in {"get_loop", "get_wait"} /\ ret[Cap] \in {"poll_ret", "last_ret"}

\* the capture thread is between the selection of latest_photo and line 137
InTransfer ==
    \/ pc[Cap] \in {"download_ret", "delete_ret"}
    \/ pc[Cap] \in {"get_loop", "get_wait"} /\ ret[Cap] \in {"download_ret", "delete_ret"}

\* the keys of the retained snapshot, none when it is unknown
SnapshotKeys == IF media_list.isNone THEN {} ELSE Range(media_list.items)

\* the requests to endpoint ep logged for the current transfer
LogOf(ep) == {i \in 1..Len(xferLog) : xferLog[i].ep = ep}

Failures(s) == {i \in 1..Len(s) : s[i] # "200"}

\* C1: get() returns the response of the first attempt answered with HTTP 200
\* and makes no attempt after it; when no attempt is answered with 200 it
\* returns None after exactly `retries` attempts; every exception and every
\* other status uses up exactly one attempt.
C1_GetRetry ==
    \A t \in Threads :
        /\ attempt[t] = Cardinality(Failures(tried[t]))
        /\ sent[t] = Len(tried[t]) + (IF inflight[t] THEN 1 ELSE 0)
        /\ pc[t] = "get_done" =>
            IF \E i \in 1..Len(tried[t]) : tried[t][i] = "200"
            THEN /\ ~resp[t].isNone /\ resp[t].status = 200
                 /\ tried[t][Len(tried[t])] = "200"
                 /\ Failures(tried[t]) = 1..(Len(tried[t]) - 1)
                 /\ Len(tried[t]) <= retries[t]
            ELSE /\ resp[t] = NoneResp
                 /\ Len(tried[t]) = retries[t]

\* one get() has returned None after two failed attempts of different kinds,
\* the other a response after a failed attempt
C1_Witness ==
    /\ pc[Ka] = "get_done" /\ tried[Ka] = <<"exc", "non200">> /\ resp[Ka] = NoneResp
    /\ pc[Cap] = "get_done" /\ tried[Cap] = <<"non200", "200">> /\ ~resp[Cap].isNone

\* C2: a failed listing query leaves the retained snapshot as it is, and a
\* later successful listing that holds a key outside the snapshot, with more
\* entries than the snapshot has, is taken on to the transfer.
C2_FailureDoesNotSuppress ==
    [][(pc[Cap] = "poll_ret" /\ pc'[Cap] # "poll_ret") =>
         LET l == get_media_list(resp[Cap]) IN
           /\ l.isNone => media_list' = media_list
           /\ (/\ ~l.isNone
               /\ Range(l.items) \ SnapshotKeys # {}
               /\ Len(l.items) > Cardinality(SnapshotKeys))
              => (pc'[Cap] = "after_wait" /\ new_media_list' = l)]_vars

\* C3: the keep-alive thread and the capture thread are never inside
\* requests.get at the same time.
C3_NoOverlap == ~(inflight[Ka] /\ inflight[Cap])

\* the places where the claim has a thread look at the flag
AtBoundary(t) ==
    IF t = Ka THEN pc[t] = "ka_head"
    ELSE pc[t] \in {"loop_head", "wait_head", "after_wait", "download_ret"}

\* C4: with running false, a thread at a state boundary calls get() no more:
\* no further poll, download, delete or keep-alive.
C4_NoRequestAfterStop ==
    [][\A t \in Threads :
         (~running /\ AtBoundary(t) /\ pc'[t] # pc[t]) => pc'[t] # "get_loop"]_vars

\* C5: once running is false, both threads stop and the runner gets through
\* both joins.
C5_ShutdownLiveness ==
    (~running) ~> (mainPc = "done" /\ pc[Ka] = "stopped" /\ pc[Cap] = "stopped")

C5_Witness ==
    /\ mainPc = "done" /\ pc[Ka] = "stopped" /\ pc[Cap] = "stopped"
    /\ device # {} /\ ~media_list.isNone

\* C6: when the new index strictly contains the old snapshot, new_files is
\* new minus old, and the file handed to the transfer is its greatest key.
C6_Selection ==
    (/\ InTransfer
     /\ ~media_list.isNone
     /\ Range(media_list.items) \subseteq Range(new_media_list.items)
     /\ Range(media_list.items) # Range(new_media_list.items))
    => /\ new_files = Range(new_media_list.items) \ Range(media_list.items)
       /\ latest_photo \in new_files
       /\ \A k \in new_files : LexLeq(k, latest_photo)
       /\ url[Cap].path = latest_photo

C6_Witness ==
    /\ InTransfer
    /\ ~media_list.isNone
    /\ Range(media_list.items) \subseteq Range(new_media_list.items)
    /\ Cardinality(new_files) >= 2

\* the download of the current transfer succeeded, deletion is on, and the
\* delete operation has returned
DeleteDone == pc[Cap] = "delete_ret" /\ delete_from_sd /\ saved # <<>>

\* C7 as stated: a successful download is followed by exactly one delete
\* request to the device, for the same path, also when the delete is answered
\* with a failure.
C7_OneDeleteRequest ==
    DeleteDone =>
        /\ Cardinality(LogOf("delete")) = 1
        /\ \A i \in LogOf("delete") : xferLog[i].path = latest_photo

\* C7 as amended: a successful download is followed by exactly one delete
\* operation for the same path, begun when the download has returned; it
\* sends one delete request when that one is answered with HTTP 200, and
\* otherwise one request per attempt of the transport, `retries` when all fail.
C7_OneDeleteOperation ==
    /\ [](DeleteDone =>
            /\ \A i \in LogOf("delete") : xferLog[i].path = latest_photo
            /\ \A i \in LogOf("delete"), j \in LogOf("download") : j < i
            /\ Cardinality(LogOf("delete")) = sent[Cap]
            /\ IF resp[Cap].isNone
               THEN Cardinality(LogOf("delete")) = DefaultRetries
               ELSE /\ resp[Cap].status = 200
                    /\ Cardinality(LogOf("delete")) = attempt[Cap] + 1
                    /\ Cardinality(LogOf("delete")) <= DefaultRetries)
    /\ [][(pc[Cap] = "download_ret" /\ pc'[Cap] # "download_ret" /\ delete_from_sd) =>
            /\ pc'[Cap] = "get_loop"
            /\ url'[Cap] = FileUrl("delete", latest_photo)
            /\ LogOf("delete") = {}]_vars
    /\ [][(pc[Cap] = "delete_ret" /\ pc'[Cap] # "delete_ret") =>
            (pc'[Cap] = "sleep_tail" /\ xferLog' = <<>>)]_vars

\* a successful download followed by a delete that failed on every attempt
C7_Witness ==
    /\ DeleteDone
    /\ resp[Cap].isNone
    /\ Cardinality(LogOf("delete")) = DefaultRetries

\* the wait loop of the full-listing path has been left through its budget test
TimedOut == pc[Cap] = "after_wait" /\ waitExit = "timeout" /\ ~FastPath(model)

\* the longest one listing request can take, all its attempts together
MaxRequestTime == DefaultRetries * MaxDur

\* C8 as stated: a wait loop whose listings never grow is left at an elapsed
\* time t with T <= t < T + b.
C8_ExitWithinBackoff ==
    TimedOut => (max_wait_time <= elapsed /\ elapsed < max_wait_time + wait_time)

\* C8 as amended: a wait loop in which no listing has more entries than the
\* snapshot (an unknown snapshot having none) is always left, through its
\* budget test, at an elapsed time t with T <= t < T + b + D, D being the
\* longest time one listing request takes.
C8_ExitWithinBudget ==
    /\ [](TimedOut =>
            /\ max_wait_time <= elapsed
            /\ elapsed < max_wait_time + wait_time + MaxRequestTime)
    /\ [][(pc[Cap] = "poll_ret" /\ pc'[Cap] \in {"after_wait", "sleep_tail"}) =>
            Len(get_media_list(resp[Cap]).items) > Cardinality(SnapshotKeys)]_vars
    /\ (InWait /\ ~FastPath(model)) ~> ~InWait

\* the loop is left a full backoff interval or more after the budget
C8_Witness == TimedOut /\ elapsed >= max_wait_time + wait_time

\* C9 as stated: a cycle whose wait loop ended by timeout sends no download
\* and no delete request and keeps its snapshot.
C9_TimeoutSkipsTransfer ==
    [][waitExit = "timeout" => (media_list' = media_list /\ xferLog' = <<>>)]_vars

\* the last listing of the wait loop holds no key outside the snapshot
NothingNew ==
    \/ new_media_list.isNone
    \/ Range(new_media_list.items) \subseteq SnapshotKeys

\* C9 as amended: a cycle whose wait loop ended by timeout with a last listing
\* that is unknown, empty or without a key outside the snapshot sends no
\* download and no delete request and keeps its snapshot; when the last
\* listing holds a key outside the snapshot the cycle transfers the greatest
\* such key.
C9_TimeoutWithoutNewKey ==
    /\ [][(waitExit = "timeout" /\ NothingNew) =>
            (media_list' = media_list /\ xferLog' = <<>>)]_vars
    /\ []((waitExit = "timeout" /\ InTransfer) =>
            /\ latest_photo \in Range(new_media_list.items) \ SnapshotKeys
            /\ \A k \in Range(new_media_list.items) \ SnapshotKeys :
                  LexLeq(k, latest_photo))

\* timeout after a successful listing of the same keys as the snapshot
C9_Witness ==
    /\ pc[Cap] = "after_wait" /\ waitExit = "timeout"
    /\ ~new_media_list.isNone /\ new_media_list.items # <<>>
    /\ Range(new_media_list.items) \subseteq SnapshotKeys

\* C10: a 200 listing of a camera without media gives the empty index, which
\* is not the unknown value, as the initial snapshot and in the wait loop.
C10_EmptyIsNotUnknown ==
    [][/\ (pc[Cap] = "init_ret" /\ pc'[Cap] # "init_ret"
             /\ IsEmptyDeviceResponse(resp[Cap]))
          => media_list' = SomeList(<<>>)
       /\ (pc[Cap] = "poll_ret" /\ pc'[Cap] # "poll_ret"
             /\ IsEmptyDeviceResponse(resp[Cap]))
          => new_media_list' = SomeList(<<>>)]_vars

\* the head of the thread's loop
LoopHeadOf(t) == IF t = Ka THEN "ka_head" ELSE "loop_head"

\* the thread has the result of a get() in its hands
HasResult(t) ==
    pc[t] \in {"ka_ret", "init_ret", "shutter_ret", "poll_ret", "last_ret",
               "download_ret", "delete_ret"}

\* C11: whatever a request of the keep-alive thread or of the capture thread
\* returns (None, a 200 response with any body), the initial listing included,
\* the thread comes back to the head of its loop: the keep-alive thread by
\* its next two steps, the capture thread in the end; a thread leaves its
\* loop only at the head, and only with running false.
C11_FailureKeepsLooping ==
    /\ [](\A t \in Threads : pc[t] = "stopped" => ~running)
    /\ [][\A t \in Threads :
            (pc[t] # "stopped" /\ pc'[t] = "stopped") =>
                (pc[t] = LoopHeadOf(t) /\ ~running)]_vars
    /\ [][/\ (pc[Ka] = "ka_ret" /\ pc'[Ka] # "ka_ret") => pc'[Ka] = "ka_sleep"
          /\ (pc[Ka] = "ka_sleep" /\ pc'[Ka] # "ka_sleep") => pc'[Ka] = "ka_head"]_vars
    /\ HasResult(Cap) ~> (pc[Cap] = LoopHeadOf(Cap))

\* both threads go on after failures: the keep-alive request has come back
\* as None and the capture loop runs after a failed initial listing and a
\* poll that came back as None
C11_Witness ==
    /\ running
    /\ pc[Ka] = "ka_ret" /\ resp[Ka].isNone
    /\ pc[Cap] = "poll_ret" /\ resp[Cap].isNone /\ media_list.isNone

\* the key of the file the camera stored last, if it still holds it
LastCaptured ==
    IF created > 0 /\ NameOf(created) \in device
    THEN {Key(Folder, NameOf(created))} ELSE {}

\* C12: on the fast path (Hero12, Hero13) a successful last-captured query
\* that finds a file outside the retained snapshot ends the wait with an
\* observation that is taken on to the transfer, as a grown listing does on
\* the full-listing path.
C12_FastPathDetects ==
    [][(/\ pc[Cap] = "last_ret" /\ pc'[Cap] # "last_ret"
        /\ Ok(resp[Cap])
        /\ ~media_list.isNone
        /\ LastCaptured \ SnapshotKeys # {})
       => (pc'[Cap] = "after_wait" /\ Truthy(new_media_list'))]_vars

\* the requests of the current transfer, by endpoint: downloads come first
DownloadThenDelete ==
    /\ \A i \in LogOf("delete"), j \in LogOf("download") : j < i
    /\ LogOf("delete") # {} => LogOf("download") # {}
    /\ \A i \in 1..Len(xferLog) : xferLog[i].path = latest_photo

\* C13: a delete request is sent only with DELETE_FROM_SD on, only for the
\* file of the current transfer and only after the download operation for
\* that file has returned; when the download returns, with a response or
\* with None, the delete is asked for exactly when the flag is on; with the
\* flag off no delete request is sent at all.
C13_DeleteGating ==
    /\ [](\A t \in Threads :
            url[t].ep = "delete" =>
                /\ t = Cap /\ delete_from_sd
                /\ url[t].path = latest_photo
                /\ ret[t] = "delete_ret")
    /\ [](DownloadThenDelete /\ (LogOf("delete") # {} => delete_from_sd))
    /\ [][(pc[Cap] = "download_ret" /\ pc'[Cap] # "download_ret") =>
            IF delete_from_sd
            THEN /\ pc'[Cap] = "get_loop"
                 /\ url'[Cap] = FileUrl("delete", latest_photo)
                 /\ LogOf("delete") = {}
            ELSE /\ pc'[Cap] = "sleep_tail"
                 /\ url'[Cap].ep # "delete"]_vars
    /\ [][(pc'[Cap] = "get_loop" /\ url'[Cap].ep = "delete" /\ url[Cap].ep # "delete")
            => pc[Cap] = "download_ret"]_vars

\* the download came back as None and the delete was sent all the same, and
\* was answered with 200
C13_Witness ==
    /\ pc[Cap] = "delete_ret" /\ delete_from_sd
    /\ saved = <<>>
    /\ LogOf("delete") # {} /\ LogOf("download") # {}
    /\ Ok(resp[Cap])

\* C14: when the transfer of a selected file ends, whatever the download and
\* the delete returned, the retained snapshot becomes the new index of this
\* cycle as it is, not merged with the old snapshot, and the capture thread
\* goes through the sleep of line 144 to the head of its loop with that
\* snapshot.
C14_SnapshotReplaced ==
    /\ [][(InTransfer /\ ~InTransfer') =>
            /\ media_list' = new_media_list
            /\ pc'[Cap] = "sleep_tail"]_vars
    /\ [][(pc[Cap] = "sleep_tail" /\ pc'[Cap] # "sleep_tail") =>
            (pc'[Cap] = "loop_head" /\ media_list' = media_list)]_vars
    /\ [][InTransfer' => media_list' = media_list]_vars

\* a transfer has ended with the delete failed, and the new snapshot has
\* dropped a key the old one held: the snapshot is the index of G10 alone,
\* which is still on the camera, though G2 was transferred and deleted, and
\* so was in the snapshot, before
C14_Witness ==
    /\ pc[Cap] = "sleep_tail"
    /\ delete_from_sd
    /\ media_list = SomeList(<<Key(Folder, NameOf(2))>>)
    /\ device = {NameOf(2)}

\* C15: when the shutter request has returned, with a 200 response or with
\* None (after a non-200 status or an exception on every attempt), the
\* capture thread starts the wait loop with a fresh clock, and the first
\* budget test lets a poll of the same cycle through; the shutter request is
\* sent only at the head of the loop, with running true and the photo
\* interval elapsed (it is 0, so the least time that can have passed since the
\* last trigger is enough), and then it is sent.
C15_TriggerThenWait ==
    /\ [][(pc[Cap] = "shutter_ret" /\ pc'[Cap] # "shutter_ret") =>
            /\ pc'[Cap] = "wait_head"
            /\ elapsed' = 0
            /\ new_media_list' = NoneList]_vars
    /\ [][(pc[Cap] = "wait_head" /\ elapsed = 0 /\ pc'[Cap] # "wait_head") =>
            /\ pc'[Cap] = "get_loop"
            /\ url'[Cap].ep = (IF FastPath(model) THEN "last_captured" ELSE "list")
            /\ MoreAttempts(attempt'[Cap], retries'[Cap])]_vars
    /\ [][(pc'[Cap] = "get_loop" /\ url'[Cap].ep = "shutter" /\ url[Cap].ep # "shutter")
            => (pc[Cap] = "loop_head" /\ running /\ IntervalElapsed(0))]_vars
    /\ [][(pc[Cap] = "loop_head" /\ pc'[Cap] # "loop_head" /\ running) =>
            (pc'[Cap] = "get_loop" /\ url'[Cap].ep = "shutter")]_vars

\* a poll is under way in a cycle whose shutter request failed: no shutter
\* request of the run was answered with 200, or the camera would have stored
\* a file or would have one to store
C15_Witness ==
    /\ pc[Cap] = "get_wait" /\ url[Cap].ep = "list"
    /\ ret[Cap] = "poll_ret"
    /\ ~media_list.isNone
    /\ created = 0 /\ pending = 0

\* a step of the keep-alive thread leaves the capture thread where it is, with
\* its snapshot, its wait clock and its other locals, and the camera unchanged
KeepAliveStepsApart ==
    [][(pc[Ka] # "not_started" /\ pc'[Ka] # pc[Ka]) =>
         /\ pc'[Cap] = pc[Cap]
         /\ UNCHANGED <<media_list, new_media_list, new_files, latest_photo,
                        elapsed, waitExit, saved, xferLog>>
         /\ UNCHANGED <<ret[Cap], url[Cap], attempt[Cap], resp[Cap]>>
         /\ UNCHANGED devVars]_vars

\* once started, and as long as running stays true, the keep-alive thread is
\* inside a keep-alive request again and again
KeepAliveAgainAndAgain ==
    []<>(\/ pc[Ka] = "not_started"
         \/ ~running
         \/ inflight[Ka] /\ url[Ka].ep = "keep_alive")

\* C16 as stated: as long as running stays true the keep-alive thread sends
\* a keep-alive request again and again, one request per period, whatever the
\* capture thread does and whatever earlier keep-alive requests returned, and
\* its steps change nothing of the capture cycle.
C16_OneRequestPerPeriod ==
    /\ KeepAliveAgainAndAgain
    /\ KeepAliveStepsApart
    /\ [](sent[Ka] <= 1)

\* C16 as amended: the same, with one call of get() per pass of the loop,
\* begun at the head of the loop, which sends one request when that one is
\* answered with HTTP 200 and otherwise one per attempt of the transport, up
\* to `retries`.
C16_KeepAliveLive ==
    /\ KeepAliveAgainAndAgain
    /\ KeepAliveStepsApart
    /\ [](/\ sent[Ka] <= DefaultRetries
          /\ url[Ka].ep \in {"none", "keep_alive"}
          /\ pc[Ka] = "ka_ret" =>
                IF resp[Ka].isNone THEN sent[Ka] = DefaultRetries
                ELSE sent[Ka] = attempt[Ka] + 1)
    /\ [][(pc'[Ka] = "get_loop" /\ pc[Ka] \notin {"get_loop", "get_wait"}) =>
            (pc[Ka] = "ka_head" /\ running /\ sent'[Ka] = 0)]_vars
    /\ [][(pc[Ka] = "ka_ret" /\ pc'[Ka] # "ka_ret") => pc'[Ka] = "ka_sleep"]_vars

\* the second keep-alive request of one pass is under way, the first having
\* failed, while the capture thread is inside the delete request of a transfer
C16_Witness ==
    /\ running
    /\ inflight[Ka] /\ url[Ka].ep = "keep_alive"
    /\ attempt[Ka] = 1 /\ sent[Ka] = 2
    /\ inflight[Cap] /\ url[Cap].ep = "delete"

\* the body is a JSON listing with a folder entry that has "d" and "fs" and
\* whose file entries all have "n"
WellFormed(b) ==
    /\ b.json /\ b.hasMedia /\ Len(b.media) > 0
    /\ b.media[1].hasD /\ b.media[1].hasFs
    /\ \A i \in 1..Len(b.media[1].fs) : b.media[1].fs[i].hasN

\* the body is not JSON, or lacks "media", or its folder entry lacks "d" or
\* "fs", or a file entry lacks "n"
Malformed(b) ==
    \/ ~b.json
    \/ ~b.hasMedia
    \/ /\ Len(b.media) > 0
       /\ \/ ~b.media[1].hasD
          \/ ~b.media[1].hasFs
          \/ \E i \in 1..Len(b.media[1].fs) : ~b.media[1].fs[i].hasN

\* s is t without its folder: t is a folder, "/", and s, and s has no "/"
IsBaseNameOf(s, t) ==
    /\ \A i \in 1..Len(s) : s[i] # Slash
    /\ \E i \in 1..Len(t) :
          /\ t[i] = Slash
          /\ s = SubSeq(t, i + 1, Len(t))

\* C17: a 200 listing with a folder entry d and file entries fs gives the
\* index whose keys are d, "/", n for the file entries n, one per entry and no
\* other; a body that is not JSON or lacks "media", "d", "fs" or an "n" gives
\* the unknown index, never a part of one; and the file of a transfer is
\* written under the base name of its key, the folder stripped.
C17_ParseAndSave ==
    /\ [][(pc[Cap] = "poll_ret" /\ pc'[Cap] # "poll_ret" /\ ~media_list.isNone) =>
            LET b == resp[Cap].body IN
              /\ WellFormed(b) =>
                    /\ ~new_media_list'.isNone
                    /\ Len(new_media_list'.items) = Len(b.media[1].fs)
                    /\ \A i \in 1..Len(b.media[1].fs) :
                          new_media_list'.items[i] =
                              b.media[1].d \o <<Slash>> \o b.media[1].fs[i].n
              /\ Malformed(b) => new_media_list' = NoneList]_vars
    /\ [](saved # <<>> =>
            /\ IsBaseNameOf(saved, latest_photo)
            /\ latest_photo \in new_files
            /\ latest_photo \in Range(new_media_list.items))

\* the snapshot is the index of the first file, the listing has the first and
\* the second file, the diff is the key of the second and the file is
\* written under the name of the second
C17_Witness ==
    /\ media_list = SomeList(<<Key(Folder, NameOf(1))>>)
    /\ Range(new_media_list.items) = {Key(Folder, NameOf(1)), Key(Folder, NameOf(2))}
    /\ new_files = {Key(Folder, NameOf(2))}
    /\ saved = NameOf(2)

\* C18: whatever the seven setup requests return, a 200 response or None,
\* start() gets through its setup and starts the keep-alive thread and the
\* capture thread.
C18_SetupNonFatal ==
    [][(mainPc = "setup" /\ mainPc' # "setup") =>
         /\ mainPc' = "main_loop"
         /\ pc'[Ka] = "ka_head"
         /\ pc'[Cap] = "init_list"]_vars

\* the keys of the files the camera holds
DeviceKeys == {Key(Folder, n) : n \in device}

\* the keys the capture thread is asking the camera to send or to delete, or
\* has asked for in the current transfer
TransferKeys ==
    {url[t].path : t \in {u \in Threads : url[u].ep \in {"download", "delete"}}}
    \cup {xferLog[i].path : i \in 1..Len(xferLog)}

\* C19: a cycle hands one key to download_and_delete, and a key of a diff
\* that was not its greatest key is never handed over, never asked for and
\* never deleted afterwards: it stays on the camera, and it is in the retained
\* snapshot from the end of that cycle's transfer on.
C19_SkippedIsLost ==
    /\ [](skipped \cap downloaded = {})
    /\ [](skipped \cap TransferKeys = {})
    /\ [](\A k \in skipped :
            /\ k \in DeviceKeys
            /\ k \in SnapshotKeys \/ (InTransfer /\ k \in new_files))
    /\ [][downloaded' # downloaded =>
            /\ pc[Cap] = "after_wait"
            /\ Cardinality(downloaded') = Cardinality(downloaded) + 1
            /\ skipped' \ skipped = NewFiles(new_media_list, media_list) \ downloaded']_vars
    /\ [](\A i \in LogOf("download") : xferLog[i].path = latest_photo)

\* a later cycle has a successful listing in its hands that holds the key
\* passed over before, and goes on without it
C19_Witness ==
    /\ skipped # {}
    /\ pc[Cap] = "after_wait"
    /\ Truthy(new_media_list)
    /\ skipped \subseteq Range(new_media_list.items)
    /\ skipped \subseteq SnapshotKeys

\* C20: the camera never gives a key to a second file, and no key is handed
\* to download_and_delete twice: the key handed over is not in the retained
\* snapshot and is in the listing of this cycle, and from the end of its
\* transfer on it is in the retained snapshot as long as the camera holds
\* the file.
C20_NoSecondDownload ==
    /\ [][downloaded' # downloaded =>
            \E k \in downloaded' :
                /\ k \notin downloaded
                /\ downloaded' = downloaded \cup {k}
                /\ k \notin SnapshotKeys
                /\ ~new_media_list.isNone /\ k \in Range(new_media_list.items)
                /\ url'[Cap] = FileUrl("download", k)]_vars
    /\ [][(pc'[Cap] = "get_loop" /\ url'[Cap].ep = "download" /\ url[Cap].ep # "download")
            => downloaded' # downloaded]_vars
    /\ [](\A k \in downloaded :
            k \in DeviceKeys =>
                (k \in SnapshotKeys \/ (InTransfer /\ latest_photo = k)))

\* both files have been handed over once, and one of them is still on the
\* camera, its delete having failed or being off, after listings that held it
C20_Witness ==
    /\ Cardinality(downloaded) = 2
    /\ downloaded \cap DeviceKeys # {}
    /\ pc[Cap] = "after_wait" /\ Truthy(new_media_list)
====
